---- MODULE Spec2Model ----
(***************************************************************************)
(* Model of codigo_prueba_rastreo.py: two analysis scripts over a directed *)
(* transaction graph (networkx DiGraph).  Script 1 builds the graph, finds *)
(* the most suspicious path with Dijkstra, ranks accounts by weighted      *)
(* betweenness, scores accounts by distance to the high-risk accounts and  *)
(* prints conclusions.  Script 2 builds the graph, computes the distance   *)
(* of every account to the high-risk accounts, thresholds it into a        *)
(* prediction and evaluates the predictions against ground truth.          *)
(*                                                                         *)
(* Numbers.  Weights and distances are Python floats 1000 / s.  They are   *)
(* held here as exact integers in units of 1/Scale; the rows the model     *)
(* feeds in are those whose weight is exact in that unit, so sums and      *)
(* comparisons are the real-number ones.  float("inf") is Inf.             *)
(* Betweenness values are exact rationals <<num, den>>.                    *)
(***************************************************************************)
EXTENDS Integers, Sequences, FiniteSets, TLC

\* ------------------------------------------------------------------ bounds
\* Most rows a generated transaction list holds.
MaxTx == 4

\* ------------------------------------------------------- program constants
\* 1000 in "weight = 1000 / suspicion_score" and "1000 / min_distance".
K == 1000
\* float("inf"); larger than every finite distance of the model.
Inf == 2147483647
\* Unit of the fixed-point weights: 1/Scale.  2^3 * 3^2 * 5^3 * 7 makes every
\* weight of the sample data an integer.
Scale == 8 * 9 * 125 * 7
\* THRESHOLD = 0.05, in units of 1/Scale.
DefaultThreshold == (5 * Scale) \div 100

accounts ==
    << "Cuenta_A", "Cuenta_B", "Cuenta_C", "Cuenta_D", "Cuenta_E",
       "Cuenta_F", "Cuenta_G", "Offshore_X", "Offshore_Y" >>

Nodes == { accounts[n] : n \in 1..Len(accounts) }

Row(o, d, m, f) == [origen |-> o, destino |-> d, monto |-> m, frecuencia |-> f]

SampleTransactions ==
    << Row("Cuenta_A", "Cuenta_B", 50000, 5),
       Row("Cuenta_B", "Cuenta_C", 45000, 4),
       Row("Cuenta_C", "Offshore_X", 40000, 3),
       Row("Cuenta_A", "Cuenta_D", 10000, 1),
       Row("Cuenta_D", "Cuenta_E", 9000, 1),
       Row("Cuenta_E", "Cuenta_F", 8000, 1),
       Row("Cuenta_F", "Offshore_X", 7000, 1),
       Row("Cuenta_A", "Cuenta_G", 30000, 2),
       Row("Cuenta_G", "Offshore_Y", 28000, 2),
       Row("Offshore_X", "Offshore_Y", 20000, 1) >>

source == "Cuenta_A"
target == "Offshore_X"

high_risk_accounts == << "Offshore_X", "Offshore_Y" >>

HighRisk == { high_risk_accounts[n] : n \in 1..Len(high_risk_accounts) }

ground_truth ==
    [a \in Nodes |->
        IF a \in {"Cuenta_B", "Cuenta_C", "Cuenta_G", "Offshore_X", "Offshore_Y"}
        THEN 1 ELSE 0]

\* ------------------------------------------------------------ input rows
\* Rows of the generated lists: the (origin, destination) pairs and the
\* (amount, frequency) values they draw from: those of the sample's first
\* and last rows (weights 0.004 and 0.05), a zero amount, a zero frequency
\* and a negative amount.
TestPairs ==
    { <<"Cuenta_A", "Cuenta_B">>, <<"Cuenta_B", "Offshore_X">>,
      <<"Cuenta_A", "Offshore_X">>, <<"Cuenta_A", "Offshore_Y">>,
      <<"Cuenta_B", "Cuenta_A">> }

TestValues == { <<50000, 5>>, <<20000, 1>>, <<0, 1>>, <<2, 0>>, <<0 - 1, 1>> }

Abs(x) == IF x < 0 THEN 0 - x ELSE x

\* The weight 1000 / s is a whole number of units.
Exact(s) == s = 0 \/ (K * Scale) % Abs(s) = 0

TestRows ==
    { Row(p[1], p[2], v[1], v[2]) : p \in TestPairs,
        v \in { w \in TestValues : Exact(w[1] * w[2]) } }

\* The threshold is adjustable: the runs classify with the script's 0.05 and
\* with 0.004, the weight of the sample's first row.
Thresholds == { DefaultThreshold, (4 * Scale) \div 1000 }

VARIABLES
    script,         \* 1 or 2: which script runs
    dataset,        \* "sample": the script's transaction list; "any": generated rows
    pc,             \* position in the script; it stays where an exception ended the run
    error,          \* the uncaught exception that ended the run, or "none"
    i,              \* rows the construction loop has consumed
    row,            \* the construction loop's variable
    G,              \* adjacency: account -> sequence of out-edges, insertion order
    names,          \* of path, length, total_amount: the names bound so far
    path, length, total_amount,
    report,         \* what step 3 printed: "none", "found" or "no_path"
    betweenness,    \* account -> centrality <<num, den>>
    betweenness_df, \* accounts by descending centrality
    passes,         \* sources the centrality loop has consumed
    j,              \* accounts the scoring loop has consumed
    risk_scores,    \* script 1: account -> record; script 2: account -> distance
    THRESHOLD,      \* 0 until the classifier sets it
    predictions,
    cm              \* confusion matrix <<<<TN, FP>>, <<FN, TP>>>>

vars ==
    << script, dataset, pc, error, i, row, G, names, path, length, total_amount,
       report, betweenness, betweenness_df, j, passes, risk_scores, THRESHOLD,
       predictions, cm >>

\* -------------------------------------------------------- graph model
EmptyGraph == [a \in Nodes |-> << >>]

\* Index of the edge u -> v in u's adjacency, 0 when absent.
EdgeIndex(g, u, v) ==
    IF \E n \in 1..Len(g[u]) : g[u][n].dst = v
    THEN CHOOSE n \in 1..Len(g[u]) : g[u][n].dst = v
    ELSE 0

HasEdge(g, u, v) == EdgeIndex(g, u, v) # 0

\* G.get_edge_data(u, v)
get_edge_data(g, u, v) == g[u][EdgeIndex(g, u, v)]

SuspicionScore(monto, frecuencia) == monto * frecuencia

\* A weight that grows with the suspicion score instead of falling with it.
WeightProportional(suspicion_score) == suspicion_score

\* 1000 / suspicion_score, for suspicion_score # 0.
Weight(suspicion_score) ==
    IF suspicion_score > 0
    THEN (K * Scale) \div suspicion_score
    ELSE 0 - ((K * Scale) \div (0 - suspicion_score))

\* The attributes the add_edge call of each script stores.
EdgeData(sc, r) ==
    LET s == SuspicionScore(r.monto, r.frecuencia) IN
    IF sc = 1
    THEN [dst |-> r.destino, weight |-> Weight(s), monto |-> r.monto,
          frecuencia |-> r.frecuencia, suspicion_score |-> s]
    ELSE [dst |-> r.destino, weight |-> Weight(s), suspicion_score |-> s]

\* A multigraph's add_edge: every call adds an edge of its own.
add_edge_parallel(g, u, e) == [g EXCEPT ![u] = Append(@, e)]

\* G.add_edge(u, v, **attr): a new edge goes last in u's adjacency, an edge
\* already there keeps its place and takes the new attributes.
add_edge(g, u, e) ==
    IF HasEdge(g, u, e.dst)
    THEN [g EXCEPT ![u][EdgeIndex(g, u, e.dst)] = e]
    ELSE [g EXCEPT ![u] = Append(@, e)]

NoRow == Row("", "", 0, 0)

Init ==
    /\ script \in {1, 2}
    /\ dataset \in {"sample", "any"}
    /\ pc = "build"
    /\ error = "none"
    /\ i = 0
    /\ row = NoRow
    /\ G = EmptyGraph
    /\ names = {}
    /\ path = << >>
    /\ length = 0
    /\ total_amount = 0
    /\ report = "none"
    /\ betweenness = [a \in Nodes |-> <<0, 1>>]
    /\ betweenness_df = << >>
    /\ passes = 0
    /\ j = 0
    /\ risk_scores = << >>
    /\ THRESHOLD = 0
    /\ predictions = << >>
    /\ cm = << <<0, 0>>, <<0, 0>> >>

\* The rows the construction loop may read next.
NextRows ==
    IF dataset = "sample"
    THEN IF i < Len(SampleTransactions) THEN {SampleTransactions[i + 1]} ELSE {}
    ELSE IF i < MaxTx THEN TestRows ELSE {}

\* One iteration of the construction loop.  A suspicion score of zero makes
\* 1000 / suspicion_score raise ZeroDivisionError, which nothing catches.
AddEdge ==
    /\ pc = "build"
    /\ error = "none"
    /\ \E r \in NextRows :
        /\ row' = r
        /\ IF SuspicionScore(r.monto, r.frecuencia) = 0
           THEN /\ error' = "ZeroDivisionError"
                /\ UNCHANGED << i, G >>
           ELSE /\ G' = add_edge(G, r.origen, EdgeData(script, r))
                /\ i' = i + 1
                /\ UNCHANGED error
    /\ UNCHANGED << pc, script, dataset, names, path, length, total_amount, report,
                    betweenness, betweenness_df, j, passes, risk_scores, THRESHOLD,
                    predictions, cm >>

\* The construction loop runs out of rows.
FinishBuild ==
    /\ pc = "build"
    /\ error = "none"
    /\ \/ dataset = "sample" /\ i = Len(SampleTransactions)
       \/ dataset = "any"
    /\ pc' = IF script = 1 THEN "dijkstra" ELSE "risk"
    /\ UNCHANGED << script, dataset, error, i, row, G, names, path, length,
                    total_amount, report, betweenness, betweenness_df, j, passes,
                    risk_scores, THRESHOLD, predictions, cm >>

\* ------------------------------------------------- weighted shortest paths
\* heappop: the least (distance, counter, node) entry of the fringe.
PopMin(fringe) ==
    CHOOSE t \in fringe :
        \A u \in fringe : t[1] < u[1] \/ (t[1] = u[1] /\ t[2] <= u[2])

\* networkx _dijkstra_multisource, the loop over the successors of v, from
\* the k-th on.  dist, seen and paths are dictionaries (functions on the
\* keys set so far); a shorter way to a node already final raises ValueError.
RECURSIVE Relax(_, _, _, _)
Relax(g, st, v, k) ==
    IF st.err \/ k > Len(g[v]) THEN st
    ELSE
        LET u == g[v][k].dst
            vu_dist == st.dist[v] + g[v][k].weight
        IN  IF u \in DOMAIN st.dist
            THEN IF vu_dist < st.dist[u]
                 THEN [st EXCEPT !.err = TRUE]
                 ELSE Relax(g, st, v, k + 1)
            ELSE IF u \notin DOMAIN st.seen \/ vu_dist < st.seen[u]
                 THEN Relax(g,
                        [st EXCEPT !.seen = (u :> vu_dist) @@ @,
                                   !.fringe = @ \cup {<<vu_dist, st.c, u>>},
                                   !.c = @ + 1,
                                   !.paths = (u :> Append(st.paths[v], u)) @@ @],
                        v, k + 1)
                 ELSE Relax(g, st, v, k + 1)

\* networkx _dijkstra_multisource, the main loop: stops at the target.
RECURSIVE DijkstraLoop(_, _, _)
DijkstraLoop(g, st, t) ==
    IF st.err \/ st.fringe = {} THEN st
    ELSE
        LET top == PopMin(st.fringe)
            v == top[3]
            st1 == [st EXCEPT !.fringe = @ \ {top}]
        IN  IF v \in DOMAIN st1.dist
            THEN DijkstraLoop(g, st1, t)
            ELSE LET st2 == [st1 EXCEPT !.dist = (v :> top[1]) @@ @] IN
                 IF v = t THEN st2
                 ELSE DijkstraLoop(g, Relax(g, st2, v, 1), t)

\* The search from s towards t: [kind, dist, path] with kind "ok", "nopath"
\* (NetworkXNoPath) or "valueerror" (ValueError: contradictory paths).
Dijkstra(g, s, t) ==
    IF s = t THEN [kind |-> "ok", dist |-> 0, path |-> <<s>>]
    ELSE
        LET st == DijkstraLoop(g,
                    [dist |-> << >>, seen |-> (s :> 0), fringe |-> {<<0, 0, s>>},
                     c |-> 1, paths |-> (s :> <<s>>), err |-> FALSE], t)
        IN  IF st.err THEN [kind |-> "valueerror", dist |-> Inf, path |-> << >>]
            ELSE IF t \in DOMAIN st.dist
                 THEN [kind |-> "ok", dist |-> st.dist[t], path |-> st.paths[t]]
                 ELSE [kind |-> "nopath", dist |-> Inf, path |-> << >>]

\* nx.dijkstra_path(G, s, t, weight="weight")
dijkstra_path(g, s, t) == Dijkstra(g, s, t)

\* nx.dijkstra_path_length(G, s, t, weight="weight")
dijkstra_path_length(g, s, t) == Dijkstra(g, s, t)

\* The loop that adds up monto over the edges of the path.
RECURSIVE TotalAmount(_, _, _)
TotalAmount(g, p, n) ==
    IF n >= Len(p) THEN 0
    ELSE get_edge_data(g, p[n], p[n + 1]).monto + TotalAmount(g, p, n + 1)

\* Step 3 of script 1: the try block around both searches and the amount
\* loop.  NetworkXNoPath is caught and reported, leaving path, length and
\* total_amount unbound; ValueError is not caught.
DijkstraStep ==
    /\ pc = "dijkstra"
    /\ error = "none"
    /\ LET p == dijkstra_path(G, source, target)
           l == dijkstra_path_length(G, source, target)
       IN  IF p.kind = "valueerror"
           THEN /\ error' = "ValueError"
                /\ UNCHANGED << pc, names, path, length, total_amount, report >>
           ELSE IF p.kind = "nopath"
           THEN /\ report' = "no_path"
                /\ pc' = "betweenness"
                /\ UNCHANGED << error, names, path, length, total_amount >>
           ELSE /\ path' = p.path
                /\ length' = l.dist
                /\ total_amount' = TotalAmount(G, p.path, 1)
                /\ names' = {"path", "length", "total_amount"}
                /\ report' = "found"
                /\ pc' = "betweenness"
                /\ UNCHANGED error
    /\ UNCHANGED << script, dataset, i, row, G, betweenness, betweenness_df, j, passes,
                    risk_scores, THRESHOLD, predictions, cm >>

\* ------------------------------------------------------------ rationals
RECURSIVE GCD(_, _)
GCD(a, b) == IF b = 0 THEN a ELSE GCD(b, a % b)

\* n / d in lowest terms with a positive denominator (d # 0).
Rat(n, d) ==
    LET g == GCD(Abs(n), Abs(d))
        sgn == IF d < 0 THEN 0 - 1 ELSE 1
    IN  << sgn * (n \div g), sgn * (d \div g) >>

RAdd(x, y) == Rat(x[1] * y[2] + y[1] * x[2], x[2] * y[2])
RMul(x, y) == Rat(x[1] * y[1], x[2] * y[2])
RDiv(x, y) == Rat(x[1] * y[2], x[2] * y[1])
RLess(x, y) == x[1] * y[2] < y[1] * x[2]

\* ------------------------------------------------ betweenness centrality
\* heappop on (distance, counter, pred, node) entries.
PopMinQ(Q) ==
    CHOOSE t \in Q : \A u \in Q : t[1] < u[1] \/ (t[1] = u[1] /\ t[2] <= u[2])

\* networkx _single_source_dijkstra_path_basic, the loop over the successors
\* of v from the k-th on; dist is the distance v was popped with.
RECURSIVE RelaxBasic(_, _, _, _, _)
RelaxBasic(g, st, v, dist, k) ==
    IF k > Len(g[v]) THEN st
    ELSE
        LET w == g[v][k].dst
            vw_dist == dist + g[v][k].weight
        IN  IF w \notin DOMAIN st.D /\ (w \notin DOMAIN st.seen \/ vw_dist < st.seen[w])
            THEN RelaxBasic(g,
                    [st EXCEPT !.seen = (w :> vw_dist) @@ @,
                               !.Q = @ \cup {<<vw_dist, st.c, v, w>>},
                               !.c = @ + 1,
                               !.sigma[w] = 0,
                               !.P[w] = <<v>>],
                    v, dist, k + 1)
            ELSE IF w \in DOMAIN st.seen /\ vw_dist = st.seen[w]
            THEN RelaxBasic(g,
                    [st EXCEPT !.sigma[w] = @ + st.sigma[v],
                               !.P[w] = Append(@, v)],
                    v, dist, k + 1)
            ELSE RelaxBasic(g, st, v, dist, k + 1)

\* networkx _single_source_dijkstra_path_basic, the main loop.
RECURSIVE BasicLoop(_, _)
BasicLoop(g, st) ==
    IF st.Q = {} THEN st
    ELSE
        LET top == PopMinQ(st.Q)
            pred == top[3]
            v == top[4]
            st1 == [st EXCEPT !.Q = @ \ {top}]
        IN  IF v \in DOMAIN st1.D
            THEN BasicLoop(g, st1)
            ELSE BasicLoop(g,
                    RelaxBasic(g,
                        [st1 EXCEPT !.sigma[v] = @ + st1.sigma[pred],
                                    !.S = Append(@, v),
                                    !.D = (v :> top[1]) @@ @],
                        v, top[1], 1))

\* S, P and sigma of the shortest paths from s.
single_source_dijkstra_path_basic(g, s) ==
    BasicLoop(g,
        [S |-> << >>, P |-> [a \in Nodes |-> << >>],
         sigma |-> [a \in Nodes |-> IF a = s THEN 1 ELSE 0],
         D |-> << >>, seen |-> (s :> 0), Q |-> {<<0, 0, s, s>>}, c |-> 1])

\* delta[v] += sigma[v] * coeff for the predecessors of w, from the k-th on.
RECURSIVE AddToPreds(_, _, _, _, _)
AddToPreds(delta, preds, sigma, coeff, k) ==
    IF k > Len(preds) THEN delta
    ELSE AddToPreds(
            [delta EXCEPT ![preds[k]] = RAdd(@, RMul(<<sigma[preds[k]], 1>>, coeff))],
            preds, sigma, coeff, k + 1)

\* An accumulation that also credits the source of the pass.
CountsAlways(w, s) == TRUE

\* Whether the node S pops at the end adds its dependency to its centrality.
CountsFor(w, s) == w # s

\* networkx _accumulate_basic: acc is [b, delta]; S is taken from its end.
\* (Taking the domain of the new delta makes TLC compute it before the next
\* round, which keeps the evaluation shallow.)
RECURSIVE accumulate_basic(_, _, _, _, _, _)
accumulate_basic(acc, S, n, P, sigma, s) ==
    IF n = 0 THEN acc
    ELSE
        LET w == S[n]
            coeff == RDiv(RAdd(<<1, 1>>, acc.delta[w]), <<sigma[w], 1>>)
            delta1 == AddToPreds(acc.delta, P[w], sigma, coeff, 1)
            acc1 == [b |-> IF CountsFor(w, s)
                           THEN [acc.b EXCEPT ![w] = RAdd(@, delta1[w])]
                           ELSE acc.b,
                     delta |-> delta1]
        IN  IF DOMAIN acc1.delta = Nodes
            THEN accumulate_basic(acc1, S, n - 1, P, sigma, s)
            ELSE acc1

\* The pass of betweenness_centrality for source s: b with the dependencies
\* of s added.
SourcePass(g, b, s) ==
    LET r == single_source_dijkstra_path_basic(g, s) IN
    accumulate_basic(
        [b |-> b, delta |-> [a \in Nodes |-> <<0, 1>>]],
        r.S, Len(r.S), r.P, r.sigma, s).b

\* networkx _rescale, normalized and directed: 1 / ((n - 1) (n - 2)).
rescale(b) ==
    LET n == Len(accounts) IN
    IF n <= 2 THEN b
    ELSE [a \in Nodes |-> RMul(b[a], Rat(1, (n - 1) * (n - 2)))]

\* sort_values("centralidad", ascending=False): the accounts of `left`, by
\* descending centrality, equal values in the order of the account list.
RECURSIVE SortDescending(_, _)
SortDescending(b, left) ==
    IF left = {} THEN << >>
    ELSE
        LET Pos(a) == CHOOSE n \in 1..Len(accounts) : accounts[n] = a
            top == CHOOSE a \in left :
                     \A o \in left :
                        RLess(b[o], b[a]) \/ (b[o] = b[a] /\ Pos(a) <= Pos(o))
        IN  <<top>> \o SortDescending(b, left \ {top})

\* Step 4 of script 1, nx.betweenness_centrality(G, weight="weight"): one
\* pass of its loop "for s in nodes".
BetweennessPass ==
    /\ pc = "betweenness"
    /\ error = "none"
    /\ passes < Len(accounts)
    /\ betweenness' = SourcePass(G, betweenness, accounts[passes + 1])
    /\ passes' = passes + 1
    /\ UNCHANGED << script, dataset, pc, error, i, row, G, names, path, length,
                    total_amount, report, betweenness_df, j, risk_scores,
                    THRESHOLD, predictions, cm >>

\* Step 4 of script 1, after the last pass: the centralities are rescaled
\* and the accounts ranked.
BetweennessStep ==
    /\ pc = "betweenness"
    /\ error = "none"
    /\ passes = Len(accounts)
    /\ betweenness' = rescale(betweenness)
    /\ betweenness_df' = SortDescending(betweenness', Nodes)
    /\ pc' = "risk"
    /\ UNCHANGED << script, dataset, error, i, row, G, names, path, length,
                    total_amount, report, j, passes, risk_scores, THRESHOLD,
                    predictions, cm >>

\* ------------------------------------------------------- risk distance
\* A scoring loop that passes over the high-risk accounts in both scripts.
SkipsInBoth(sc, account) == account \in HighRisk

\* Whether the scoring loop passes over the account without scoring it:
\* script 1 skips the high-risk accounts, script 2 has no such test.
Skips(sc, account) == sc = 1 /\ account \in HighRisk

\* Whether a distance replaces the least one found so far.
Closer(distance, min_distance) == distance < min_distance

\* The loop over high_risk_accounts, from the k-th on: NetworkXNoPath is
\* passed over, ValueError ends the run.
RECURSIVE NearestFrom(_, _, _, _)
NearestFrom(g, account, acc, k) ==
    IF acc.err \/ k > Len(high_risk_accounts) THEN acc
    ELSE
        LET risk_account == high_risk_accounts[k]
            d == dijkstra_path_length(g, account, risk_account)
        IN  IF d.kind = "valueerror" THEN [acc EXCEPT !.err = TRUE]
            ELSE IF d.kind = "ok" /\ Closer(d.dist, acc.min_distance)
            THEN NearestFrom(g, account,
                    [acc EXCEPT !.min_distance = d.dist,
                                !.closest_account = risk_account], k + 1)
            ELSE NearestFrom(g, account, acc, k + 1)

Nearest(g, account) ==
    NearestFrom(g, account,
        [min_distance |-> Inf, closest_account |-> "None", err |-> FALSE], 1)

\* An entry computed without the test for an infinite least distance.
RiskEntryUntested(near) ==
    [puntaje_riesgo |-> Rat(K * Scale, near.min_distance),
     cuenta_cercana |-> near.closest_account,
     distancia |-> near.min_distance]

\* The entry script 1 stores for an account whose least distance is finite
\* and not zero, and the entry for an account that reaches no high-risk one.
RiskEntry(near) ==
    IF near.min_distance # Inf
    THEN [puntaje_riesgo |-> Rat(K * Scale, near.min_distance),
          cuenta_cercana |-> near.closest_account,
          distancia |-> near.min_distance]
    ELSE [puntaje_riesgo |-> <<0, 1>>,
          cuenta_cercana |-> "None",
          distancia |-> Inf]

\* One iteration of the scoring loop "for account in accounts".  In script 1
\* a least distance of zero makes 1000 / min_distance raise ZeroDivisionError.
RiskStep ==
    /\ pc = "risk"
    /\ error = "none"
    /\ j < Len(accounts)
    /\ LET account == accounts[j + 1]
           near == Nearest(G, account)
       IN  IF Skips(script, account)
           THEN /\ j' = j + 1
                /\ UNCHANGED << pc, error, risk_scores >>
           ELSE IF near.err
           THEN /\ error' = "ValueError"
                /\ UNCHANGED << pc, j, risk_scores >>
           ELSE IF script = 1 /\ near.min_distance = 0
           THEN /\ error' = "ZeroDivisionError"
                /\ UNCHANGED << pc, j, risk_scores >>
           ELSE /\ risk_scores' =
                      (account :> IF script = 1 THEN RiskEntry(near)
                                  ELSE near.min_distance) @@ risk_scores
                /\ j' = j + 1
                /\ UNCHANGED << pc, error >>
    /\ UNCHANGED << script, dataset, i, row, G, names, path, length,
                    total_amount, report, betweenness, betweenness_df, passes,
                    THRESHOLD, predictions, cm >>

\* The scoring loop runs out of accounts.
FinishRisk ==
    /\ pc = "risk"
    /\ error = "none"
    /\ j = Len(accounts)
    /\ pc' = IF script = 1 THEN "conclusions" ELSE "classify"
    /\ UNCHANGED << script, dataset, error, i, row, G, names, path, length,
                    total_amount, report, betweenness, betweenness_df, j, passes,
                    risk_scores, THRESHOLD, predictions, cm >>

\* Step 6 of script 1: the conclusions read path, length and total_amount;
\* a name the try block never bound raises NameError.
Conclusions ==
    /\ pc = "conclusions"
    /\ error = "none"
    /\ IF {"path", "length", "total_amount"} \subseteq names
       THEN pc' = "done" /\ UNCHANGED error
       ELSE error' = "NameError" /\ UNCHANGED pc
    /\ UNCHANGED << script, dataset, i, row, G, names, path, length,
                    total_amount, report, betweenness, betweenness_df, j, passes,
                    risk_scores, THRESHOLD, predictions, cm >>

\* ------------------------------------------------ threshold classifier
\* A classifier that counts a distance equal to the threshold as fraud.
ClassifyInclusive(distance, threshold) == IF distance <= threshold THEN 1 ELSE 0

\* 1 if risk_scores[account] < THRESHOLD else 0
Classify(distance, threshold) == IF distance < threshold THEN 1 ELSE 0

\* Script 2: the threshold is set and every account is classified.
ClassifyStep ==
    /\ pc = "classify"
    /\ error = "none"
    /\ \E th \in Thresholds :
        /\ THRESHOLD' = th
        /\ predictions' = [a \in Nodes |-> Classify(risk_scores[a], th)]
    /\ pc' = "evaluate"
    /\ UNCHANGED << script, dataset, error, i, row, G, names, path, length,
                    total_amount, report, betweenness, betweenness_df, j, passes,
                    risk_scores, cm >>

\* confusion_matrix(y_true, y_pred): cm[t + 1][p + 1] counts the accounts of
\* true label t predicted p.
confusion_matrix(truth, pred) ==
    LET Count(t, p) == Cardinality({a \in Nodes : truth[a] = t /\ pred[a] = p})
    IN  << <<Count(0, 0), Count(0, 1)>>, <<Count(1, 0), Count(1, 1)>> >>

\* Script 2: the predictions are compared with the ground truth.
Evaluate ==
    /\ pc = "evaluate"
    /\ error = "none"
    /\ cm' = confusion_matrix(ground_truth, predictions)
    /\ pc' = "done"
    /\ UNCHANGED << script, dataset, error, i, row, G, names, path, length,
                    total_amount, report, betweenness, betweenness_df, j, passes,
                    risk_scores, THRESHOLD, predictions >>

Next ==
    \/ AddEdge
    \/ FinishBuild
    \/ DijkstraStep
    \/ BetweennessPass
    \/ BetweennessStep
    \/ RiskStep
    \/ FinishRisk
    \/ Conclusions
    \/ ClassifyStep
    \/ Evaluate

Spec == Init /\ [][Next]_vars

\* ------------------------------------------------- reference definitions
\* The total weights of the simple directed paths from u to t.
RECURSIVE PathCosts(_, _, _, _)
PathCosts(g, u, t, visited) ==
    IF u = t THEN {0}
    ELSE UNION { { c + g[u][n].weight :
                     c \in PathCosts(g, g[u][n].dst, t, visited \cup {u}) } :
                 n \in { m \in 1..Len(g[u]) : g[u][m].dst \notin visited \cup {u} } }

Reaches(g, u, t) == PathCosts(g, u, t, {}) # {}

\* The weighted shortest-path distance from u to t, Inf when there is no path.
ShortestDistance(g, u, t) ==
    LET costs == PathCosts(g, u, t, {}) IN
    IF costs = {} THEN Inf
    ELSE CHOOSE c \in costs : \A o \in costs : c <= o

\* The least shortest-path distance from u to a high-risk account.
RiskDistance(g, u) ==
    LET ds == { ShortestDistance(g, u, r) : r \in HighRisk } IN
    CHOOSE d \in ds : \A o \in ds : d <= o

\* The weight of a given path: the sum of the weights of its edges.
RECURSIVE PathWeight(_, _, _)
PathWeight(g, p, n) ==
    IF n >= Len(p) THEN 0
    ELSE get_edge_data(g, p[n], p[n + 1]).weight + PathWeight(g, p, n + 1)

NumEdges(g, u, v) == Cardinality({ n \in 1..Len(g[u]) : g[u][n].dst = v })

\* Position of an account in a ranking.
Rank(df, a) == CHOOSE n \in 1..Len(df) : df[n] = a

\* Accounts that no path runs through: no incoming edge, or no outgoing edge.
NoTraffic(g) ==
    { a \in Nodes : g[a] = << >> \/ ~ \E u \in Nodes : HasEdge(g, u, a) }

\* Script 1: every edge of the graph holds a positive amount and frequency.
PositiveInputs ==
    \A u \in Nodes : \A n \in 1..Len(G[u]) :
        G[u][n].monto > 0 /\ G[u][n].frecuencia > 0

\* Script 1 has computed the centralities.
Ranked == script = 1 /\ betweenness_df # << >>

\* ------------------------------------------------------------------ C1
\* C1: when there is no directed path from the source to the target account,
\* script 1 reports the no-path outcome and the run never ends in an
\* exception.  Stated for the graphs of positive amounts and frequencies, so
\* that no exception of an invalid row is counted.
C1_NoPathRunCompletes ==
    (script = 1 /\ report = "no_path" /\ PositiveInputs) => error = "none"

\* ------------------------------------------------------------------ C2
\* C2: a row with amount <= 0 or frequency <= 0 ends in InvalidTransaction
\* and leaves the graph unchanged, so every stored weight is positive and
\* finite.
C2_InvalidTransactionRejected ==
    /\ \A u \in Nodes : \A n \in 1..Len(G[u]) :
          G[u][n].weight > 0 /\ G[u][n].weight < Inf
    /\ (row # NoRow /\ (row.monto <= 0 \/ row.frecuencia <= 0))
       => error = "InvalidTransaction"

\* ------------------------------------------------------------------ C3
HighChain == << "Cuenta_A", "Cuenta_B", "Cuenta_C", "Offshore_X" >>
LowChain == << "Cuenta_A", "Cuenta_D", "Cuenta_E", "Cuenta_F", "Offshore_X" >>

\* C3: on the sample data the path found from Cuenta_A to Offshore_X is the
\* chain over Cuenta_B and Cuenta_C, its weight is below that of the chain
\* over Cuenta_D, Cuenta_E and Cuenta_F, and its amounts add up to 135000.
C3_SamplePath ==
    (dataset = "sample" /\ script = 1 /\ pc \notin {"build", "dijkstra"})
    => /\ report = "found"
       /\ path = HighChain
       /\ length = PathWeight(G, HighChain, 1)
       /\ length < PathWeight(G, LowChain, 1)
       /\ total_amount = 135000

C3_Witness ==
    /\ dataset = "sample" /\ script = 1 /\ pc = "betweenness"
    /\ path = HighChain /\ total_amount = 135000

\* ------------------------------------------------------------------ C4
\* C4 as stated: on the sample data Cuenta_B, Cuenta_C and Cuenta_A each have
\* a centrality strictly above that of every account that carries no
\* shortest-path traffic.
C4_Original ==
    (dataset = "sample" /\ Ranked)
    => \A a \in {"Cuenta_A", "Cuenta_B", "Cuenta_C"} : \A o \in NoTraffic(G) :
          RLess(betweenness[o], betweenness[a])

\* C4 amended: on the sample data Cuenta_B and Cuenta_C have a centrality
\* strictly above that of every account that carries no traffic and are
\* ranked before each of them; Cuenta_A is itself such an account, with
\* centrality 0, the same as Offshore_Y.
C4_BridgesAboveLeaves ==
    (dataset = "sample" /\ Ranked)
    => /\ NoTraffic(G) = {"Cuenta_A", "Offshore_Y"}
       /\ \A a \in {"Cuenta_B", "Cuenta_C"} : \A o \in NoTraffic(G) :
             /\ RLess(betweenness[o], betweenness[a])
             /\ Rank(betweenness_df, a) < Rank(betweenness_df, o)
       /\ betweenness["Cuenta_A"] = <<0, 1>>
       /\ betweenness["Offshore_Y"] = <<0, 1>>
       /\ \A n \in 1..(Len(betweenness_df) - 1) :
             ~ RLess(betweenness[betweenness_df[n]], betweenness[betweenness_df[n + 1]])

C4_Witness ==
    /\ dataset = "sample" /\ Ranked
    /\ RLess(<<0, 1>>, betweenness["Cuenta_B"])
    /\ RLess(betweenness["Cuenta_B"], betweenness["Cuenta_C"])

\* ------------------------------------------------------------------ C5
\* The scoring loop of script 1 is running or has run.
Scoring == script = 1 /\ pc \in {"risk", "conclusions", "done"}

\* C5: on a graph of positive amounts and frequencies the scoring loop of
\* script 1 raises nothing; an account that reaches no high-risk account gets
\* score 0, distance infinite and no nearest account, and an account that
\* reaches one gets a finite distance above zero.
C5_ScoringNeverRaises ==
    (Scoring /\ PositiveInputs)
    => /\ pc = "risk" => error = "none"
       /\ \A n \in 1..j : accounts[n] \notin HighRisk => accounts[n] \in DOMAIN risk_scores
       /\ \A a \in DOMAIN risk_scores :
             IF \E r \in HighRisk : Reaches(G, a, r)
             THEN /\ risk_scores[a].distancia > 0
                  /\ risk_scores[a].distancia < Inf
                  /\ risk_scores[a].puntaje_riesgo = Rat(K * Scale, risk_scores[a].distancia)
             ELSE /\ risk_scores[a].puntaje_riesgo = <<0, 1>>
                  /\ risk_scores[a].distancia = Inf
                  /\ risk_scores[a].cuenta_cercana = "None"

C5_Witness ==
    /\ Scoring /\ PositiveInputs /\ j = Len(accounts)
    /\ \E a \in DOMAIN risk_scores : risk_scores[a].distancia = Inf
    /\ \E a \in DOMAIN risk_scores : risk_scores[a].distancia < Inf

\* ------------------------------------------------------------------ C6
\* The first high-risk account, in list order, at the least distance from a.
FirstNearest(g, a) ==
    high_risk_accounts[
        CHOOSE n \in 1..Len(high_risk_accounts) :
            /\ ShortestDistance(g, a, high_risk_accounts[n]) = RiskDistance(g, a)
            /\ \A m \in 1..(n - 1) :
                  ShortestDistance(g, a, high_risk_accounts[m]) # RiskDistance(g, a)]

\* What C6 says of the entry of account a.
RiskEntryIsMinimum(a) ==
    (\E r \in HighRisk : Reaches(G, a, r))
    => /\ risk_scores[a].distancia = RiskDistance(G, a)
       /\ risk_scores[a].cuenta_cercana = FirstNearest(G, a)
       /\ risk_scores[a].puntaje_riesgo = Rat(K * Scale, risk_scores[a].distancia)

\* C6: for every scored account that reaches a high-risk account, the
\* recorded distance is the least shortest-path distance to a high-risk
\* account, the recorded nearest account is the first in list order at that
\* distance, and the score is 1000 / distance.
C6_RiskDistanceIsMinimum ==
    script = 1 => \A a \in DOMAIN risk_scores : RiskEntryIsMinimum(a)

\* The same on the graphs of positive amounts and frequencies only.
RiskDistanceIsMinimumOnPositiveInputs ==
    (script = 1 /\ PositiveInputs) => \A a \in DOMAIN risk_scores : RiskEntryIsMinimum(a)

\* ------------------------------------------------------------------ C7
\* C7 as stated: neither script's scorer holds an entry, nor a prediction, for
\* a high-risk account.
C7_Original ==
    /\ DOMAIN risk_scores \cap HighRisk = {}
    /\ DOMAIN predictions \cap HighRisk = {}

\* C7 amended: the scorer of script 1 never holds an entry for a high-risk
\* account; the scorer of script 2 scores every account it has passed, the
\* high-risk ones included, and every account is given a prediction.
C7_OnlyScriptOneExcludes ==
    /\ script = 1 =>
          /\ DOMAIN risk_scores = { accounts[n] : n \in 1..j } \ HighRisk
          /\ predictions = << >>
    /\ script = 2 =>
          /\ DOMAIN risk_scores = { accounts[n] : n \in 1..j }
          /\ pc \in {"evaluate", "done"} => DOMAIN predictions = Nodes

C7_Witness ==
    /\ script = 1 /\ pc = "conclusions"
    /\ DOMAIN risk_scores = Nodes \ HighRisk

\* ------------------------------------------------------------------ C8
\* Script 2 has classified the accounts.
Classified == script = 2 /\ pc \in {"evaluate", "done"}

\* C8: an account is predicted fraud exactly when its risk distance is
\* strictly below the threshold; a distance equal to the threshold and an
\* infinite distance are predicted clean.
C8_FraudIffBelowThreshold ==
    Classified
    => \A a \in Nodes :
          /\ predictions[a] \in {0, 1}
          /\ predictions[a] = 1 <=> risk_scores[a] < THRESHOLD
          /\ risk_scores[a] = THRESHOLD => predictions[a] = 0
          /\ risk_scores[a] = Inf => predictions[a] = 0

C8_Witness ==
    /\ Classified
    /\ \E a \in Nodes : risk_scores[a] = THRESHOLD /\ predictions[a] = 0
    /\ \E a \in Nodes : risk_scores[a] = Inf /\ predictions[a] = 0
    /\ \E a \in Nodes \ HighRisk : predictions[a] = 1

\* ----------------------------------------------------------------- C10
\* What the edge u -> v must hold after row r: the attributes of r.
HoldsRow(sc, e, r) ==
    /\ e.dst = r.destino
    /\ e.suspicion_score = r.monto * r.frecuencia
    /\ e.weight * e.suspicion_score = K * Scale
    /\ sc = 1 => e.monto = r.monto /\ e.frecuencia = r.frecuencia

\* C10: every row the construction loop stores leaves one edge for its
\* (origin, destination) pair, holding that row's values, and leaves every
\* other edge as it was; a row that raises leaves the graph as it was.  So
\* after any sequence of rows each pair holds the values of its last row.
C10_LastWriteWins ==
    [][ pc = "build" =>
          IF i' = i + 1
          THEN \A u, v \in Nodes :
                 /\ NumEdges(G', u, v) <= 1
                 /\ IF u = row'.origen /\ v = row'.destino
                    THEN /\ HasEdge(G', u, v)
                         /\ HoldsRow(script, get_edge_data(G', u, v), row')
                    ELSE /\ HasEdge(G', u, v) <=> HasEdge(G, u, v)
                         /\ HasEdge(G, u, v) =>
                               get_edge_data(G', u, v) = get_edge_data(G, u, v)
          ELSE G' = G ]_vars

\* A row has replaced the edge an earlier row stored for the same pair.
C10_Witness ==
    /\ pc = "build" /\ i >= 2
    /\ Cardinality({ <<u, v>> \in Nodes \X Nodes : HasEdge(G, u, v) }) < i
    /\ HasEdge(G, row.origen, row.destino)
    /\ HoldsRow(script, get_edge_data(G, row.origen, row.destino), row)

====
